---- MODULE Spec2Model ----
(***************************************************************************)
(* A model of gtemplate: the Broker route registry (registration and       *)
(* lookup with directory/file backtracking) and the TemplateServer         *)
(* compiled-template cache (lazy fill under a reader/writer lock).         *)
(*                                                                         *)
(* Strings are sequences of one-character strings, so that the slicing,    *)
(* searching and cleaning the code does on paths is computed, not assumed. *)
(***************************************************************************)
EXTENDS Integers, Sequences, FiniteSets, TLC

VARIABLES
    reg,          \* Broker.reg: [nil, m], m a map directory -> (path -> brokerEntry)
    mu,           \* Broker.mu: [readers, writer]
    registered,   \* history: pattern -> entry, for every registration that returned
    last,         \* history: the last Broker call and how it ended
    templates,    \* TemplateServer.templates: path -> compiled template (or NilTemplate)
    mut,          \* TemplateServer.mut: [readers, writer, pending]
    files,        \* the document root: the set of paths whose file parses
    nFs,          \* history: number of changes made to the document root
    pc,           \* per task: position in ServeHTTP / loadTemplate
    req,          \* per task: the request being served (locals of ServeHTTP)
    parses,       \* history: path -> number of successful ParseFiles calls
    nServed,      \* history: number of requests accepted
    san,          \* one call of sanitizePath: its argument, its results, its position
    ctor,         \* one call of a constructor: its arguments, the file system, its results
    conc          \* Broker calls in parallel: Broker.mu as [readers, writer, pending],
                  \* and per task its position and its call

vars == <<reg, mu, registered, last, templates, mut, files, nFs, pc, req,
          parses, nServed, san, ctor, conc>>

brokerVars == <<reg, mu, registered, last>>
serverVars == <<templates, mut, files, nFs, pc, req, parses, nServed>>

----------------------------------------------------------------------------
(* Bounds *)

MaxRegistered == 2
NumTasks == 2
MaxServed == 3
MaxFsChanges == 1
MaxPathLen == 5
MaxIncludeDepth == 2
MaxCalls == 3

----------------------------------------------------------------------------
(* Strings *)

Slash == "/"

\* DirectoryIndex = "index.gohtml"
DirectoryIndex == <<"i", "n", "d", "e", "x", ".", "g", "o", "h", "t", "m", "l">>

\* strings.LastIndex(s, c) for a one-character c: 0-based, -1 when absent
RECURSIVE LastIndexFrom(_, _, _)
LastIndexFrom(s, c, i) ==
    IF i = 0 THEN -1 ELSE IF s[i] = c THEN i - 1 ELSE LastIndexFrom(s, c, i - 1)

LastIndex(s, c) == LastIndexFrom(s, c, Len(s))

\* Go's s[:n]
Prefix(s, n) == SubSeq(s, 1, n)

\* Go's s[n:]
Suffix(s, n) == SubSeq(s, n + 1, Len(s))

\* stringBacktrace cutting before the separator instead of after it
stringBacktrace_DropsSeparator(orig, to) ==
    LET i == LastIndex(orig, to)
    IN  IF i = -1 THEN orig ELSE Prefix(orig, i)

stringBacktrace(orig, to) ==
    LET i == LastIndex(orig, to)
    IN  IF i = -1 THEN orig ELSE Prefix(orig, i + 1)

\* path.Split: the split is right after the final slash
PathSplit(p) ==
    LET i == LastIndex(p, Slash)
    IN  [dir |-> Prefix(p, i + 1), file |-> Suffix(p, i + 1)]

\* the slash-separated elements of s (empty ones included)
RECURSIVE Elements(_)
Elements(s) ==
    LET hits == {i \in 1..Len(s) : s[i] = Slash}
    IN  IF hits = {} THEN <<s>>
        ELSE LET i == CHOOSE k \in hits : \A j \in hits : k <= j
             IN  <<Prefix(s, i - 1)>> \o Elements(Suffix(s, i))

DotDot == <<".", ".">>

\* path.Clean's element rules, applied left to right to a stack of kept elements
RECURSIVE CleanStack(_, _, _)
CleanStack(elems, stack, rooted) ==
    IF elems = <<>> THEN stack
    ELSE LET e == Head(elems)
             rest == Tail(elems)
         IN  IF e = <<>> \/ e = <<".">> THEN CleanStack(rest, stack, rooted)
             ELSE IF e = DotDot
                  THEN IF stack # <<>> /\ stack[Len(stack)] # DotDot
                       THEN CleanStack(rest, Prefix(stack, Len(stack) - 1), rooted)
                       ELSE IF rooted THEN CleanStack(rest, stack, rooted)
                            ELSE CleanStack(rest, Append(stack, e), rooted)
                  ELSE CleanStack(rest, Append(stack, e), rooted)

RECURSIVE JoinSlash(_)
JoinSlash(elems) ==
    IF elems = <<>> THEN <<>>
    ELSE IF Len(elems) = 1 THEN elems[1]
         ELSE elems[1] \o <<Slash>> \o JoinSlash(Tail(elems))

\* path.Clean
PathClean(p) ==
    IF p = <<>> THEN <<".">>
    ELSE LET rooted == p[1] = Slash
             kept == CleanStack(Elements(p), <<>>, rooted)
             out == (IF rooted THEN <<Slash>> ELSE <<>>) \o JoinSlash(kept)
         IN  IF out = <<>> THEN <<".">> ELSE out

\* path.Join of two elements
PathJoin(a, b) ==
    IF a = <<>> /\ b = <<>> THEN <<>>
    ELSE IF a = <<>> THEN PathClean(b)
         ELSE IF b = <<>> THEN PathClean(a)
              ELSE PathClean(a \o <<Slash>> \o b)

\* sanitizePath returning the rooted path as it came
sanitizePath_SkipsClean(p) ==
    IF p = <<>> THEN <<Slash>>
    ELSE IF p[1] # Slash THEN <<Slash>> \o p ELSE p

sanitizePath(p) ==
    IF p = <<>> THEN <<Slash>>
    ELSE PathClean(IF p[1] # Slash THEN <<Slash>> \o p ELSE p)

\* the cases of TestSanitizePath
TestSanitizePath ==
    {[Path |-> <<>>, Expected |-> <<"/">>],
     [Path |-> <<"/", "a", "/", "b">>, Expected |-> <<"/", "a", "/", "b">>],
     [Path |-> <<"/", "a", "/", "b", "/">>, Expected |-> <<"/", "a", "/", "b">>],
     [Path |-> <<"/", "a", "/", ".", ".", "/">>, Expected |-> <<"/">>],
     [Path |-> <<"/", "a", "/", ".", ".", "/", ".", ".", "/", "b">>,
      Expected |-> <<"/", "b">>]}

\* the characters request paths are made of, and the paths sanitizePath is called with
PathChars == {"/", ".", "a"}

InputPaths ==
    UNION {[1..n -> PathChars] : n \in 0..MaxPathLen} \cup {c.Path : c \in TestSanitizePath}

\* a document root, and the file loadTemplate opens for a cache key under it
DocumentRoot == <<"/", "r">>

FilePath(root, path) == PathJoin(root, path)

NoSan == [in |-> <<>>, out |-> <<>>, again |-> <<>>, file |-> <<>>, step |-> 0]

----------------------------------------------------------------------------
(* Maps *)

EmptyMap == <<>>

HasKey(m, k) == k \in DOMAIN m

Put(m, k, v) == [x \in (DOMAIN m) \cup {k} |-> IF x = k THEN v ELSE m[x]]

Delete(m, k) == [x \in (DOMAIN m) \ {k} |-> m[x]]

----------------------------------------------------------------------------
(* Broker: types *)

NilHandler == 0
ConstHandler == 1
FuncHandler == 2
BrokerHandler == 3

NoPanic == "none"

\* the nil map, func or interface
Nil == "nil"

\* the zero brokerEntry
ZeroEntry ==
    [class |-> NilHandler, mapHandler |-> Nil, funcHandler |-> Nil, brokerHandler |-> Nil]

\* an interface{} value: its dynamic type and the value it holds
NilIface == [type |-> Nil, val |-> Nil]

Iface(type, val) == [type |-> type, val |-> val]

\* a value of interface type DataBroker converted to interface{}: nil stays nil
FromDataBroker(broker) == IF broker = Nil THEN NilIface ELSE Iface("DataBroker", broker)

\* a value of a concrete type converted to interface{}: never the nil interface
FromConcrete(type, val) == Iface(type, val)

\* the zero Broker of NewBroker: reg is the nil map
NewBroker == [mu |-> [readers |-> 0, writer |-> FALSE], reg |-> [nil |-> TRUE, m |-> EmptyMap]]

\* sync.RWMutex of the Broker, as one call sees it when no other call runs
MuLock(m) == [m EXCEPT !.writer = TRUE]
MuUnlock(m) == [m EXCEPT !.writer = FALSE]
MuRLock(m) == [m EXCEPT !.readers = @ + 1]
MuRUnlock(m) == [m EXCEPT !.readers = @ - 1]

----------------------------------------------------------------------------
(* Broker: registration *)

\* registerDirectory starting the bucket of its directory afresh
registerDirectory_ResetsBucket(m, pattern, entry) ==
    LET idx == PathJoin(pattern, DirectoryIndex)
        present == HasKey(m, pattern)
    IN  IF present /\ HasKey(m[pattern], pattern)
        THEN [m |-> m, panic |-> "gtemplate: broker: attempted to re-register directory"]
        ELSE LET m1 == Put(m, pattern, EmptyMap)
                 m2 == Put(m1, pattern, Put(m1[pattern], pattern, entry))
                 m3 == Put(m2, pattern, Put(m2[pattern], idx, entry))
             IN  [m |-> m3, panic |-> NoPanic]

\* registerDirectory seeding the index entry only in a bucket it creates
registerDirectory_NoIndexInOldBucket(m, pattern, entry) ==
    LET idx == PathJoin(pattern, DirectoryIndex)
        present == HasKey(m, pattern)
    IN  IF present /\ HasKey(m[pattern], pattern)
        THEN [m |-> m, panic |-> "gtemplate: broker: attempted to re-register directory"]
        ELSE LET needIndex == ~present
                 m1 == IF present THEN m ELSE Put(m, pattern, EmptyMap)
                 m2 == Put(m1, pattern, Put(m1[pattern], pattern, entry))
                 m3 == IF needIndex
                       THEN Put(m2, pattern, Put(m2[pattern], idx, entry))
                       ELSE m2
             IN  [m |-> m3, panic |-> NoPanic]

registerDirectory(m, pattern, entry) ==
    LET idx == PathJoin(pattern, DirectoryIndex)
        present == HasKey(m, pattern)
    IN  IF present /\ HasKey(m[pattern], pattern)
        THEN [m |-> m, panic |-> "gtemplate: broker: attempted to re-register directory"]
        ELSE LET needIndex == ~(present /\ HasKey(m[pattern], idx))
                 m1 == IF present THEN m ELSE Put(m, pattern, EmptyMap)
                 m2 == Put(m1, pattern, Put(m1[pattern], pattern, entry))
                 m3 == IF needIndex
                       THEN Put(m2, pattern, Put(m2[pattern], idx, entry))
                       ELSE m2
             IN  [m |-> m3, panic |-> NoPanic]

\* registerFile without the check for the index filename
registerFile_AllowsIndex(m, pattern, entry) ==
    LET sp == PathSplit(pattern)
    IN  IF HasKey(m, sp.dir) /\ HasKey(m[sp.dir], pattern)
        THEN [m |-> m, panic |-> "gtemplate: broker: attempted to re-register file"]
        ELSE LET m1 == IF HasKey(m, sp.dir) THEN m ELSE Put(m, sp.dir, EmptyMap)
             IN  [m |-> Put(m1, sp.dir, Put(m1[sp.dir], pattern, entry)),
                  panic |-> NoPanic]

\* registerFile without the check for an entry already present
registerFile_Overwrites(m, pattern, entry) ==
    LET sp == PathSplit(pattern)
    IN  IF sp.file = DirectoryIndex
        THEN [m |-> m,
              panic |-> "gtemplate: broker: attempted to register handler for index"]
        ELSE LET m1 == IF HasKey(m, sp.dir) THEN m ELSE Put(m, sp.dir, EmptyMap)
             IN  [m |-> Put(m1, sp.dir, Put(m1[sp.dir], pattern, entry)),
                  panic |-> NoPanic]

registerFile(m, pattern, entry) ==
    LET sp == PathSplit(pattern)
    IN  IF sp.file = DirectoryIndex
        THEN [m |-> m,
              panic |-> "gtemplate: broker: attempted to register handler for index"]
        ELSE IF HasKey(m, sp.dir) /\ HasKey(m[sp.dir], pattern)
             THEN [m |-> m, panic |-> "gtemplate: broker: attempted to re-register file"]
             ELSE LET m1 == IF HasKey(m, sp.dir) THEN m ELSE Put(m, sp.dir, EmptyMap)
                  IN  [m |-> Put(m1, sp.dir, Put(m1[sp.dir], pattern, entry)),
                       panic |-> NoPanic]

\* the entry built by the class switch; Nil class result when the class is unknown
EntryOf(class, handler) ==
    IF class = BrokerHandler THEN [ZeroEntry EXCEPT !.class = class, !.brokerHandler = handler.val]
    ELSE IF class = ConstHandler THEN [ZeroEntry EXCEPT !.class = class, !.mapHandler = handler.val]
    ELSE IF class = FuncHandler THEN [ZeroEntry EXCEPT !.class = class, !.funcHandler = handler.val]
    ELSE [ZeroEntry EXCEPT !.class = class]

\* registerHandler on broker b = [mu, reg]: the broker it leaves and the panic it
\* ends with (NoPanic when it returns). The deferred Unlock runs on every exit.
registerHandler(b, pattern, class, handler) ==
    LET locked == MuLock(b.mu)
        done(r, p) == [mu |-> MuUnlock(locked), reg |-> r, panic |-> p]
    IN  IF pattern = <<>> THEN done(b.reg, "gtemplate: broker: empty pattern")
        ELSE IF handler = NilIface THEN done(b.reg, "gtemplate: broker: nil handler")
        ELSE LET m0 == IF b.reg.nil THEN Put(EmptyMap, <<Slash>>, EmptyMap) ELSE b.reg.m
                 r0 == [nil |-> FALSE, m |-> m0]
             IN  IF class \notin {BrokerHandler, ConstHandler, FuncHandler, NilHandler}
                 THEN done(r0, "gtemplate: broker: unknown handler type")
                 ELSE LET entry == EntryOf(class, handler)
                          out == IF pattern[Len(pattern)] = Slash
                                 THEN registerDirectory(m0, pattern, entry)
                                 ELSE registerFile(m0, pattern, entry)
                      IN  done([nil |-> FALSE, m |-> out.m], out.panic)

\* Handle, HandleFunc, HandleData: the conversion of the argument to interface{}
\* is the caller's, the rest is registerHandler
Handle(b, pattern, broker) ==
    registerHandler(b, pattern, BrokerHandler, FromDataBroker(broker))

HandleFunc(b, pattern, handler) ==
    registerHandler(b, pattern, FuncHandler, FromConcrete("BrokerFunc", handler))

HandleData(b, pattern, handler) ==
    registerHandler(b, pattern, ConstHandler, FromConcrete("map", handler))

----------------------------------------------------------------------------
(* Broker: lookup *)

NotFound(m) == [entry |-> ZeroEntry, ok |-> FALSE, panic |-> NoPanic, mu |-> m]

Found(e, m) == [entry |-> e, ok |-> TRUE, panic |-> NoPanic, mu |-> m]

Panicked(p, m) == [entry |-> ZeroEntry, ok |-> FALSE, panic |-> p, mu |-> m]

RECURSIVE lookupHandler(_, _)
RECURSIVE lookupWalk(_, _, _)

\* the loop going straight to the directory handler of the first bucket it finds
lookupWalk_SkipsExactMatch(b, pattern, comp) ==
    IF comp = <<Slash>> THEN NotFound(b.mu)
    ELSE LET c == stringBacktrace(comp, Slash)
         IN  IF HasKey(b.reg.m, c)
             THEN lookupHandler(b, c)
             ELSE IF Len(c) = 0
                  THEN Panicked("runtime error: slice bounds out of range [:-1]", b.mu)
                  ELSE lookupWalk(b, pattern, Prefix(c, Len(c) - 1))

\* the loop going on to the directories further up when the first bucket it finds
\* has no handler for the path
lookupWalk_KeepsWalking(b, pattern, comp) ==
    IF comp = <<Slash>> THEN NotFound(b.mu)
    ELSE LET c == stringBacktrace(comp, Slash)
         IN  IF HasKey(b.reg.m, c)
             THEN IF HasKey(b.reg.m[c], pattern)
                  THEN Found(b.reg.m[c][pattern], b.mu)
                  ELSE LET r == lookupHandler(b, c)
                       IN  IF r.ok \/ r.panic # NoPanic \/ Len(c) <= 1 THEN r
                           ELSE lookupWalk(b, pattern, Prefix(c, Len(c) - 1))
             ELSE IF Len(c) = 0
                  THEN Panicked("runtime error: slice bounds out of range [:-1]", b.mu)
                  ELSE lookupWalk(b, pattern, Prefix(c, Len(c) - 1))

\* the for loop of the file branch, entered with the read lock held (b.mu);
\* its result carries the lock as the loop leaves it
lookupWalk(b, pattern, comp) ==
    IF comp = <<Slash>> THEN NotFound(b.mu)
    ELSE LET c == stringBacktrace(comp, Slash)
         IN  IF HasKey(b.reg.m, c)
             THEN IF HasKey(b.reg.m[c], pattern)
                  THEN Found(b.reg.m[c][pattern], b.mu)
                  ELSE lookupHandler(b, c)
             ELSE IF Len(c) = 0
                  THEN Panicked("runtime error: slice bounds out of range [:-1]", b.mu)
                  ELSE lookupWalk(b, pattern, Prefix(c, Len(c) - 1))

\* lookupHandler answering for a directory without a bucket with the root's handler
lookupHandler_FallsBackToRoot(b, pattern) ==
    LET held == [b EXCEPT !.mu = MuRLock(b.mu)]
        exit(r) == [r EXCEPT !.mu = MuRUnlock(r.mu)]
    IN  IF Len(pattern) = 0
        THEN exit(Panicked("runtime error: index out of range [-1]", held.mu))
        ELSE IF pattern[Len(pattern)] = Slash
             THEN IF HasKey(held.reg.m, pattern)
                  THEN LET e == held.reg.m[pattern]
                           idx == PathJoin(pattern, DirectoryIndex)
                       IN  IF HasKey(e, pattern) THEN exit(Found(e[pattern], held.mu))
                           ELSE IF HasKey(e, idx) THEN exit(Found(e[idx], held.mu))
                                ELSE exit(NotFound(held.mu))
                  ELSE IF pattern = <<Slash>> THEN exit(NotFound(held.mu))
                       ELSE exit(lookupHandler(held, <<Slash>>))
             ELSE exit(lookupWalk(held, pattern, pattern))

\* lookupHandler returning an entry it found with the read lock still held
lookupHandler_ReturnsLocked(b, pattern) ==
    LET held == [b EXCEPT !.mu = MuRLock(b.mu)]
        exit(r) == IF r.ok THEN r ELSE [r EXCEPT !.mu = MuRUnlock(r.mu)]
    IN  IF Len(pattern) = 0
        THEN exit(Panicked("runtime error: index out of range [-1]", held.mu))
        ELSE IF pattern[Len(pattern)] = Slash
             THEN IF HasKey(held.reg.m, pattern)
                  THEN LET e == held.reg.m[pattern]
                           idx == PathJoin(pattern, DirectoryIndex)
                       IN  IF HasKey(e, pattern) THEN exit(Found(e[pattern], held.mu))
                           ELSE IF HasKey(e, idx) THEN exit(Found(e[idx], held.mu))
                                ELSE exit(NotFound(held.mu))
                  ELSE exit(NotFound(held.mu))
             ELSE exit(lookupWalk(held, pattern, pattern))

\* lookupHandler on broker b = [mu, reg]; the deferred RUnlock runs on every exit
lookupHandler(b, pattern) ==
    LET held == [b EXCEPT !.mu = MuRLock(b.mu)]
        exit(r) == [r EXCEPT !.mu = MuRUnlock(r.mu)]
    IN  IF Len(pattern) = 0
        THEN exit(Panicked("runtime error: index out of range [-1]", held.mu))
        ELSE IF pattern[Len(pattern)] = Slash
             THEN IF HasKey(held.reg.m, pattern)
                  THEN LET e == held.reg.m[pattern]
                           idx == PathJoin(pattern, DirectoryIndex)
                       IN  IF HasKey(e, pattern) THEN exit(Found(e[pattern], held.mu))
                           ELSE IF HasKey(e, idx) THEN exit(Found(e[idx], held.mu))
                                ELSE exit(NotFound(held.mu))
                  ELSE exit(NotFound(held.mu))
             ELSE exit(lookupWalk(held, pattern, pattern))

\* what a data source call returns: a map, named by where it came from
NilData == [kind |-> Nil, src |-> Nil, path |-> <<>>]

ConstData(id) == IF id = Nil THEN NilData ELSE [kind |-> "map", src |-> id, path |-> <<>>]

FuncData(id, path) == [kind |-> "func", src |-> id, path |-> path]

ErrorData(id, path) == [kind |-> "error", src |-> id, path |-> path]

DelegateData(id, path) == [kind |-> "delegate", src |-> id, path |-> path]

\* Data handing on what the BrokerFunc returned although it returned an error
DataSwitch_IgnoresError(h, path, fnErr) ==
    LET ret(d) == [ret |-> d, panic |-> NoPanic, mu |-> h.mu, ok |-> h.ok]
    IN  IF h.panic # NoPanic THEN [ret |-> NilData, panic |-> h.panic, mu |-> h.mu, ok |-> FALSE]
        ELSE IF ~h.ok THEN ret(NilData)
        ELSE IF h.entry.class = BrokerHandler
             THEN ret(DelegateData(h.entry.brokerHandler, path))
        ELSE IF h.entry.class = ConstHandler THEN ret(ConstData(h.entry.mapHandler))
        ELSE IF h.entry.class = FuncHandler
             THEN IF h.entry.funcHandler = Nil
                  THEN [ret |-> NilData,
                        panic |-> "runtime error: invalid memory address or nil pointer dereference",
                        mu |-> h.mu, ok |-> TRUE]
                  ELSE ret(FuncData(h.entry.funcHandler, path))
        ELSE IF h.entry.class = NilHandler THEN ret(NilData)
        ELSE [ret |-> NilData, panic |-> "gtemplate: broker: unknown handler type",
              mu |-> h.mu, ok |-> TRUE]

\* Broker.Data after its call of lookupHandler returned h; fnErr says whether a
\* called BrokerFunc returns an error
DataSwitch(h, path, fnErr) ==
    LET ret(d) == [ret |-> d, panic |-> NoPanic, mu |-> h.mu, ok |-> h.ok]
    IN  IF h.panic # NoPanic THEN [ret |-> NilData, panic |-> h.panic, mu |-> h.mu, ok |-> FALSE]
        ELSE IF ~h.ok THEN ret(NilData)
        ELSE IF h.entry.class = BrokerHandler
             THEN ret(DelegateData(h.entry.brokerHandler, path))
        ELSE IF h.entry.class = ConstHandler THEN ret(ConstData(h.entry.mapHandler))
        ELSE IF h.entry.class = FuncHandler
             THEN IF h.entry.funcHandler = Nil
                  THEN [ret |-> NilData,
                        panic |-> "runtime error: invalid memory address or nil pointer dereference",
                        mu |-> h.mu, ok |-> TRUE]
                  ELSE IF fnErr THEN ret(ErrorData(h.entry.funcHandler, path))
                       ELSE ret(FuncData(h.entry.funcHandler, path))
        ELSE IF h.entry.class = NilHandler THEN ret(NilData)
        ELSE [ret |-> NilData, panic |-> "gtemplate: broker: unknown handler type",
              mu |-> h.mu, ok |-> TRUE]

\* Broker.Data
Data(b, path, fnErr) == DataSwitch(lookupHandler(b, path), path, fnErr)

\* whether Data, after lookupHandler returned h, calls a registered handler: the
\* Data of a delegate DataBroker or a BrokerFunc
InvokesHandler(h) ==
    /\ h.panic = NoPanic
    /\ h.ok
    /\ \/ h.entry.class = BrokerHandler
       \/ h.entry.class = FuncHandler /\ h.entry.funcHandler # Nil

\* whether Data, after lookupHandler returned h, calls a registered BrokerFunc
CallsFunc(h) ==
    h.panic = NoPanic /\ h.ok /\ h.entry.class = FuncHandler /\ h.entry.funcHandler # Nil

----------------------------------------------------------------------------
(* Broker: the calls made on one registry, one at a time *)

Str_d == <<"/", "d", "/">>
Str_d_s == <<"/", "d", "/", "s">>
Str_d_o == <<"/", "d", "/", "o">>
Str_d_e == <<"/", "d", "/", "e", "/">>
Str_d_e_f == <<"/", "d", "/", "e", "/", "f">>
Str_d_e_g == <<"/", "d", "/", "e", "/", "g">>
Str_u == <<"/", "u", "/">>
Str_u_x == <<"/", "u", "/", "x">>
Str_root == <<"/">>
Str_index == <<"/">> \o DirectoryIndex
Str_d_index == Str_d \o DirectoryIndex

\* the patterns registrations are tried with
Patterns == {<<>>, Str_root, Str_d, Str_d_s, <<"f">>, Str_index, Str_d_index}

\* the paths Data is called with
LookupPaths ==
    {<<>>, Str_root, Str_d, Str_d_s, Str_d_o, Str_d_e, Str_d_e_f, Str_d_e_g,
     Str_u, Str_u_x, Str_index, Str_d_index, <<"f">>, <<"g">>}

DataBrokers == {"b1", Nil}
BrokerFuncs == {"f1", Nil}
DataMaps == {"m1", Nil}

B == [mu |-> mu, reg |-> reg]

NoCall ==
    [op |-> "none", pattern |-> <<>>, class |-> NilHandler, val |-> Nil, panic |-> NoPanic,
     wasRegistered |-> FALSE, ok |-> FALSE, entry |-> ZeroEntry, ret |-> NilData,
     lookupPanic |-> NoPanic, invoked |-> FALSE, held |-> NewBroker.mu,
     fnErr |-> FALSE]

\* a registration call with its outcome r
Registration(op, pattern, class, val, r) ==
    /\ reg' = r.reg
    /\ mu' = r.mu
    /\ registered' = IF r.panic = NoPanic
                     THEN Put(registered, pattern, [class |-> class, val |-> val])
                     ELSE registered
    /\ Cardinality(DOMAIN registered') <= MaxRegistered
    /\ last' = [NoCall EXCEPT !.op = op, !.pattern = pattern, !.class = class, !.val = val,
                              !.panic = r.panic,
                              !.wasRegistered = HasKey(registered, pattern)]
    /\ UNCHANGED <<serverVars, san, ctor, conc>>

CallHandle(pattern, broker) ==
    Registration("Handle", pattern, BrokerHandler, broker, Handle(B, pattern, broker))

CallHandleFunc(pattern, handler) ==
    Registration("HandleFunc", pattern, FuncHandler, handler, HandleFunc(B, pattern, handler))

CallHandleData(pattern, handler) ==
    Registration("HandleData", pattern, ConstHandler, handler, HandleData(B, pattern, handler))

\* a call of Data; when it calls a BrokerFunc, that may return an error or not
CallData(path) ==
    LET h == lookupHandler(B, path)
    IN  \E fnErr \in (IF CallsFunc(h) THEN BOOLEAN ELSE {FALSE}) :
            LET d == DataSwitch(h, path, fnErr)
            IN  /\ mu' = d.mu
                /\ last' = [NoCall EXCEPT !.op = "Data", !.pattern = path,
                                          !.panic = d.panic, !.ok = h.ok,
                                          !.entry = h.entry, !.ret = d.ret,
                                          !.lookupPanic = h.panic,
                                          !.invoked = InvokesHandler(h),
                                          !.held = h.mu,
                                          !.fnErr = fnErr]
                /\ UNCHANGED <<reg, registered>>
                /\ UNCHANGED <<serverVars, san, ctor, conc>>

----------------------------------------------------------------------------
(* TemplateServer *)

Tasks == 1..NumTasks

NoTask == 0

StatusNone == 0
StatusOK == 200
StatusNotFound == 404
StatusInternalServerError == 500

ErrNone == "nil"
ErrAlreadyParsed == "gtemplate: attempted to re-parse for path"
ErrParse == "ParseFiles failed"

Str_a == <<"/", "a">>
Str_a_up == <<"/", "a", "/", ".", ".">>

\* the URL paths requests arrive with
RequestPaths == {Str_root, Str_a, Str_a_up}

\* the files of the document root that may exist and parse
ServablePaths == {Str_index, Str_a}

\* the nil *template.Template a failed ParseFiles returns
NilTemplate == [path |-> <<>>, n |-> 0]

\* the n-th template compiled for path
Template(path, n) == [path |-> path, n |-> n]

ZeroReq ==
    [url |-> <<>>, p |-> <<>>, err |-> ErrNone, status |-> StatusNone, dataCalls |-> 0,
     dataPath |-> <<>>, tmpl |-> NilTemplate, loaded |-> FALSE, attempts |-> 0,
     exec |-> "none"]

Readers(m) == {t \in Tasks : m.readers[t] > 0}

\* sync.RWMutex: a writer that has called Lock keeps new readers out
CanRLock(m) == m.pending = NoTask /\ m.writer = NoTask

RLock(m, t) == [m EXCEPT !.readers[t] = @ + 1]

RUnlock(m, t) == [m EXCEPT !.readers[t] = @ - 1]

\* ServeHTTP 282-285: the request path becomes the cache key
CacheKey(url) == sanitizePath(IF url = Str_root THEN Str_index ELSE url)

Accept(t, url) ==
    /\ pc[t] = "idle"
    /\ nServed < MaxServed
    /\ nServed' = nServed + 1
    /\ req' = [req EXCEPT ![t] = [ZeroReq EXCEPT !.url = url, !.p = CacheKey(url)]]
    /\ pc' = [pc EXCEPT ![t] = "rlock"]
    /\ UNCHANGED <<templates, mut, files, nFs, parses>>
    /\ UNCHANGED <<brokerVars, san, ctor, conc>>

\* ServeHTTP 287: srv.mut.RLock()
ServeRLock(t) ==
    /\ pc[t] = "rlock"
    /\ CanRLock(mut)
    /\ mut' = RLock(mut, t)
    /\ pc' = [pc EXCEPT ![t] = "check"]
    /\ UNCHANGED <<templates, files, nFs, req, parses, nServed>>
    /\ UNCHANGED <<brokerVars, san, ctor, conc>>

\* ServeHTTP going on to the data and the render without loading a missing template
ServeCheck_SkipsLoad(t) ==
    /\ pc[t] = "check"
    /\ pc' = [pc EXCEPT ![t] = "data"]
    /\ UNCHANGED <<templates, mut, files, nFs, req, parses, nServed>>
    /\ UNCHANGED <<brokerVars, san, ctor, conc>>

\* ServeHTTP 289: the existence check under the shared lock
ServeCheck(t) ==
    /\ pc[t] = "check"
    /\ pc' = [pc EXCEPT ![t] = IF HasKey(templates, req[t].p) THEN "data" ELSE "runlock"]
    /\ UNCHANGED <<templates, mut, files, nFs, req, parses, nServed>>
    /\ UNCHANGED <<brokerVars, san, ctor, conc>>

\* ServeHTTP going to loadTemplate with its shared hold kept
ServeRUnlock_KeepsHold(t) ==
    /\ pc[t] = "runlock"
    /\ mut' = mut
    /\ pc' = [pc EXCEPT ![t] = "lt_lock"]
    /\ UNCHANGED <<templates, files, nFs, req, parses, nServed>>
    /\ UNCHANGED <<brokerVars, san, ctor, conc>>

\* ServeHTTP 290: srv.mut.RUnlock() before loadTemplate
ServeRUnlock(t) ==
    /\ pc[t] = "runlock"
    /\ mut' = RUnlock(mut, t)
    /\ pc' = [pc EXCEPT ![t] = "lt_lock"]
    /\ UNCHANGED <<templates, files, nFs, req, parses, nServed>>
    /\ UNCHANGED <<brokerVars, san, ctor, conc>>

\* loadTemplate 260: srv.mut.Lock() is called; from here new readers wait
LoadLock(t) ==
    /\ pc[t] = "lt_lock"
    /\ mut.pending = NoTask /\ mut.writer = NoTask
    /\ mut' = [mut EXCEPT !.pending = t]
    /\ pc' = [pc EXCEPT ![t] = "lt_acquire"]
    /\ UNCHANGED <<templates, files, nFs, req, parses, nServed>>
    /\ UNCHANGED <<brokerVars, san, ctor, conc>>

\* loadTemplate 260: Lock returns once the readers have left
LoadAcquire(t) ==
    /\ pc[t] = "lt_acquire"
    /\ Readers(mut) = {}
    /\ mut' = [mut EXCEPT !.pending = NoTask, !.writer = t]
    /\ pc' = [pc EXCEPT ![t] = "lt_check"]
    /\ UNCHANGED <<templates, files, nFs, req, parses, nServed>>
    /\ UNCHANGED <<brokerVars, san, ctor, conc>>

\* loadTemplate going on to parse whatever the map holds
LoadCheck_NoExistenceCheck(t) ==
    /\ pc[t] = "lt_check"
    /\ req' = req
    /\ pc' = [pc EXCEPT ![t] = "lt_parse"]
    /\ UNCHANGED <<templates, mut, files, nFs, parses, nServed>>
    /\ UNCHANGED <<brokerVars, san, ctor, conc>>

\* loadTemplate 263-266: the existence check under the exclusive lock
LoadCheck(t) ==
    /\ pc[t] = "lt_check"
    /\ IF HasKey(templates, req[t].p)
       THEN /\ req' = [req EXCEPT ![t].err = ErrAlreadyParsed]
            /\ pc' = [pc EXCEPT ![t] = "lt_unlock"]
       ELSE /\ req' = req
            /\ pc' = [pc EXCEPT ![t] = "lt_parse"]
    /\ UNCHANGED <<templates, mut, files, nFs, parses, nServed>>
    /\ UNCHANGED <<brokerVars, san, ctor, conc>>

\* loadTemplate returning the parse error without the delete
LoadParse_SkipsDelete(t) ==
    /\ pc[t] = "lt_parse"
    /\ IF req[t].p \in files
       THEN /\ parses' = [parses EXCEPT ![req[t].p] = @ + 1]
            /\ templates' = Put(templates, req[t].p, Template(req[t].p, parses'[req[t].p]))
            /\ req' = [req EXCEPT ![t].loaded = TRUE, ![t].attempts = @ + 1]
            /\ pc' = [pc EXCEPT ![t] = "lt_unlock"]
       ELSE /\ parses' = parses
            /\ templates' = Put(templates, req[t].p, NilTemplate)
            /\ req' = [req EXCEPT ![t].err = ErrParse, ![t].attempts = @ + 1]
            /\ pc' = [pc EXCEPT ![t] = "lt_unlock"]
    /\ UNCHANGED <<mut, files, nFs, nServed>>
    /\ UNCHANGED <<brokerVars, san, ctor, conc>>

\* loadTemplate 269: the map entry is assigned whatever ParseFiles returns
LoadParse(t) ==
    /\ pc[t] = "lt_parse"
    /\ IF req[t].p \in files
       THEN /\ parses' = [parses EXCEPT ![req[t].p] = @ + 1]
            /\ templates' = Put(templates, req[t].p, Template(req[t].p, parses'[req[t].p]))
            /\ req' = [req EXCEPT ![t].loaded = TRUE, ![t].attempts = @ + 1]
            /\ pc' = [pc EXCEPT ![t] = "lt_unlock"]
       ELSE /\ parses' = parses
            /\ templates' = Put(templates, req[t].p, NilTemplate)
            /\ req' = [req EXCEPT ![t].err = ErrParse, ![t].attempts = @ + 1]
            /\ pc' = [pc EXCEPT ![t] = "lt_delete"]
    /\ UNCHANGED <<mut, files, nFs, nServed>>
    /\ UNCHANGED <<brokerVars, san, ctor, conc>>

\* loadTemplate returning the parse error with the entry left in the map
LoadDelete_KeepsEntry(t) ==
    /\ pc[t] = "lt_delete"
    /\ templates' = templates
    /\ pc' = [pc EXCEPT ![t] = "lt_unlock"]
    /\ UNCHANGED <<mut, files, nFs, req, parses, nServed>>
    /\ UNCHANGED <<brokerVars, san, ctor, conc>>

\* loadTemplate 270-272: the entry of a failed parse is deleted
LoadDelete(t) ==
    /\ pc[t] = "lt_delete"
    /\ templates' = Delete(templates, req[t].p)
    /\ pc' = [pc EXCEPT ![t] = "lt_unlock"]
    /\ UNCHANGED <<mut, files, nFs, req, parses, nServed>>
    /\ UNCHANGED <<brokerVars, san, ctor, conc>>

\* loadTemplate 261: the deferred srv.mut.Unlock()
LoadUnlock(t) ==
    /\ pc[t] = "lt_unlock"
    /\ mut' = [mut EXCEPT !.writer = NoTask]
    /\ pc' = [pc EXCEPT ![t] = "rlock2"]
    /\ UNCHANGED <<templates, files, nFs, req, parses, nServed>>
    /\ UNCHANGED <<brokerVars, san, ctor, conc>>

\* ServeHTTP answering the 404 without taking the read lock again
ServeRLockAgain_ReturnsUnlocked(t) ==
    /\ pc[t] = "rlock2"
    /\ IF req[t].err # ErrNone
       THEN /\ mut' = mut
            /\ req' = [req EXCEPT ![t].status = StatusNotFound]
            /\ pc' = [pc EXCEPT ![t] = "ret"]
       ELSE /\ CanRLock(mut)
            /\ mut' = RLock(mut, t)
            /\ req' = req
            /\ pc' = [pc EXCEPT ![t] = "data"]
    /\ UNCHANGED <<templates, files, nFs, parses, nServed>>
    /\ UNCHANGED <<brokerVars, san, ctor, conc>>

\* ServeHTTP 292-297: srv.mut.RLock() again, then any error of loadTemplate is a 404
ServeRLockAgain(t) ==
    /\ pc[t] = "rlock2"
    /\ CanRLock(mut)
    /\ mut' = RLock(mut, t)
    /\ IF req[t].err # ErrNone
       THEN /\ req' = [req EXCEPT ![t].status = StatusNotFound]
            /\ pc' = [pc EXCEPT ![t] = "ret"]
       ELSE /\ req' = req
            /\ pc' = [pc EXCEPT ![t] = "data"]
    /\ UNCHANGED <<templates, files, nFs, parses, nServed>>
    /\ UNCHANGED <<brokerVars, san, ctor, conc>>

\* ServeHTTP 300: data := srv.broker.Data(p)
ServeData(t) ==
    /\ pc[t] = "data"
    /\ req' = [req EXCEPT ![t].dataCalls = @ + 1, ![t].dataPath = req[t].p]
    /\ pc' = [pc EXCEPT ![t] = "exec"]
    /\ UNCHANGED <<templates, mut, files, nFs, parses, nServed>>
    /\ UNCHANGED <<brokerVars, san, ctor, conc>>

\* ServeHTTP dropping the template from the cache when its execution fails
ServeExecute_EvictsOnFailure(t, fails) ==
    /\ pc[t] = "exec"
    /\ req' = [req EXCEPT ![t].tmpl = templates[req[t].p],
                          ![t].exec = IF fails THEN "failed" ELSE "ok",
                          ![t].status = IF fails THEN StatusInternalServerError ELSE StatusOK]
    /\ templates' = IF fails THEN Delete(templates, req[t].p) ELSE templates
    /\ pc' = [pc EXCEPT ![t] = "ret"]
    /\ UNCHANGED <<mut, files, nFs, parses, nServed>>
    /\ UNCHANGED <<brokerVars, san, ctor, conc>>

\* ServeHTTP 301-305: the cached template is executed; a failure is a 500
ServeExecute(t, fails) ==
    /\ pc[t] = "exec"
    /\ req' = [req EXCEPT ![t].tmpl = templates[req[t].p],
                          ![t].exec = IF fails THEN "failed" ELSE "ok",
                          ![t].status = IF fails THEN StatusInternalServerError ELSE StatusOK]
    /\ pc' = [pc EXCEPT ![t] = "ret"]
    /\ UNCHANGED <<templates, mut, files, nFs, parses, nServed>>
    /\ UNCHANGED <<brokerVars, san, ctor, conc>>

\* ServeHTTP 288: the deferred srv.mut.RUnlock()
ServeReturn(t) ==
    /\ pc[t] = "ret"
    /\ mut' = RUnlock(mut, t)
    /\ pc' = [pc EXCEPT ![t] = "done"]
    /\ UNCHANGED <<templates, files, nFs, req, parses, nServed>>
    /\ UNCHANGED <<brokerVars, san, ctor, conc>>

\* the task is free for the next request
Finish(t) ==
    /\ pc[t] = "done"
    /\ pc' = [pc EXCEPT ![t] = "idle"]
    /\ req' = [req EXCEPT ![t] = ZeroReq]
    /\ UNCHANGED <<templates, mut, files, nFs, parses, nServed>>
    /\ UNCHANGED <<brokerVars, san, ctor, conc>>

\* the document root changes: a file appears (and parses) or goes away
FsChange(path) ==
    /\ nFs < MaxFsChanges
    /\ nFs' = nFs + 1
    /\ files' = IF path \in files THEN files \ {path} ELSE files \cup {path}
    /\ UNCHANGED <<templates, mut, pc, req, parses, nServed>>
    /\ UNCHANGED <<brokerVars, san, ctor, conc>>

----------------------------------------------------------------------------
(* Constructors *)

\* what a path of the file system names: nothing, a regular file, or a directory
\* with its entries <<name, node>> in the order os.ReadDir returns them
Missing == [kind |-> "missing", entries |-> <<>>]

File == [kind |-> "file", entries |-> <<>>]

Dir(entries) == [kind |-> "dir", entries |-> entries]

\* the names directory entries have, in sorted order
EntryNames == <<<<"x">>, <<"y">>>>

\* the directories whose entries are nodes of the set below
DirsOver(below) ==
    {Dir(SelectSeq([i \in 1..Len(EntryNames) |-> <<EntryNames[i], c[i]>>],
                   LAMBDA en : en[2] # Missing)) :
        c \in [1..Len(EntryNames) -> below \cup {Missing}]}

\* the files and the directory trees of at most n levels
RECURSIVE Nodes(_)
Nodes(n) == IF n = 0 THEN {File} ELSE {File} \cup DirsOver(Nodes(n - 1))

ErrRootInvalid == "gtemplate: root: invalid root directory"
ErrIncludesInvalid == "gtemplate: includes: invalid includes directory"
DefaultDataBroker == "DefaultDataBroker"

\* the error classes of os.Stat and os.ReadDir
ENOENT == "no such file or directory"
ENOTDIR == "not a directory"

\* verifyDirectory on a path that names node
verifyDirectory(node) ==
    IF node.kind = "missing" THEN FALSE
    ELSE IF node.kind # "dir" THEN FALSE
         ELSE TRUE

\* os.ReadDir on a path that names node; notDirErr is the error class the
\* platform gives for a path that is not a directory
ReadDir(node, notDirErr) ==
    IF node.kind = "dir" THEN [entries |-> node.entries, err |-> ErrNone]
    ELSE IF node.kind = "missing" THEN [entries |-> <<>>, err |-> ENOENT]
         ELSE [entries |-> <<>>, err |-> notDirErr]

\* loadIncludes at path, which names node, with srv.includes = includes
RECURSIVE loadIncludes(_, _, _, _)
RECURSIVE loadEntries(_, _, _, _)
loadEntries(includes, path, entries, notDirErr) ==
    IF entries = <<>> THEN [includes |-> includes, err |-> ErrNone]
    ELSE LET elem == Head(entries)
             name == PathJoin(path, elem[1])
         IN  IF elem[2].kind = "dir"
             THEN LET r == loadIncludes(includes, name, elem[2], notDirErr)
                  IN  IF r.err # ErrNone THEN r
                      ELSE loadEntries(r.includes, path, Tail(entries), notDirErr)
             ELSE loadEntries(Append(includes, name), path, Tail(entries), notDirErr)

loadIncludes(includes, path, node, notDirErr) ==
    LET rd == ReadDir(node, notDirErr)
    IN  IF rd.err = ENOENT
        THEN [includes |-> includes, err |-> ErrIncludesInvalid]
        ELSE loadEntries(includes, path, rd.entries, notDirErr)

\* the paths the constructors are called with
Str_root_dir == <<"/", "r">>
Str_include_dir == <<"/", "i">>

\* a *TemplateServer, and the nil one
TemplateServer(broker, root, includes) ==
    [nil |-> FALSE, broker |-> broker, templates |-> EmptyMap, root |-> root,
     includes |-> includes]

NilServer ==
    [nil |-> TRUE, broker |-> Nil, templates |-> EmptyMap, root |-> <<>>, includes |-> <<>>]

NewServer(root, rootNode, data) ==
    IF ~verifyDirectory(rootNode) THEN [srv |-> NilServer, err |-> ErrRootInvalid]
    ELSE [srv |-> TemplateServer(IF data = Nil THEN DefaultDataBroker ELSE data, root, <<>>),
          err |-> ErrNone]

NewIncludesServer(root, includeRoot, includeNode, data, notDirErr) ==
    LET r == loadIncludes(<<>>, includeRoot, includeNode, notDirErr)
    IN  IF r.err # ErrNone THEN [srv |-> NilServer, err |-> r.err]
        ELSE [srv |-> TemplateServer(IF data = Nil THEN DefaultDataBroker ELSE data,
                                     root, r.includes),
              err |-> ErrNone]

NoCtor ==
    [fn |-> "none", rootNode |-> Missing, includeNode |-> Missing, data |-> Nil,
     notDirErr |-> ENOTDIR, srv |-> NilServer, err |-> ErrNone]

CallNewServer ==
    /\ ctor.fn = "none"
    /\ LET r == NewServer(Str_root_dir, ctor.rootNode, ctor.data)
       IN  ctor' = [ctor EXCEPT !.fn = "NewServer", !.srv = r.srv, !.err = r.err]
    /\ UNCHANGED <<brokerVars, serverVars, san, conc>>

CallNewIncludesServer ==
    /\ ctor.fn = "none"
    /\ LET r == NewIncludesServer(Str_root_dir, Str_include_dir, ctor.includeNode,
                                  ctor.data, ctor.notDirErr)
       IN  ctor' = [ctor EXCEPT !.fn = "NewIncludesServer", !.srv = r.srv, !.err = r.err]
    /\ UNCHANGED <<brokerVars, serverVars, san, conc>>

----------------------------------------------------------------------------
(* Broker: calls in parallel, step by step between the operations on Broker.mu *)

\* the patterns, handlers and paths of the parallel calls
ConcPatterns == {Str_root, Str_d, Str_d_s}

ConcHandlers == {[class |-> FuncHandler, val |-> "f1"], [class |-> BrokerHandler, val |-> "b1"]}

ConcPaths == {Str_root, Str_d, Str_d_s, Str_d_o}

NoConcCall == [op |-> "none", pattern |-> <<>>, class |-> NilHandler, val |-> Nil, comp |-> <<>>]

NoConc ==
    [mu |-> [readers |-> [t \in Tasks |-> 0], writer |-> NoTask, pending |-> NoTask],
     pc |-> [t \in Tasks |-> "idle"],
     call |-> [t \in Tasks |-> NoConcCall],
     n |-> 0]

\* where the body of lookupHandler, run with the read lock held, ends: at a
\* return (or a panic), or at the nested call b.lookupHandler(comp)
RECURSIVE walkEnd(_, _, _)
walkEnd(m, pattern, comp) ==
    IF comp = <<Slash>> THEN [nested |-> FALSE, comp |-> comp]
    ELSE LET c == stringBacktrace(comp, Slash)
         IN  IF HasKey(m, c)
             THEN IF HasKey(m[c], pattern)
                  THEN [nested |-> FALSE, comp |-> c]
                  ELSE [nested |-> TRUE, comp |-> c]
             ELSE IF Len(c) = 0
                  THEN [nested |-> FALSE, comp |-> c]
                  ELSE walkEnd(m, pattern, Prefix(c, Len(c) - 1))

bodyEnd(m, pattern) ==
    IF Len(pattern) = 0 \/ pattern[Len(pattern)] = Slash
    THEN [nested |-> FALSE, comp |-> pattern]
    ELSE walkEnd(m, pattern, pattern)

\* a task calls Data(path)
BeginData(t, path) ==
    /\ conc.pc[t] = "idle"
    /\ conc.n < MaxCalls
    /\ conc' = [conc EXCEPT !.pc[t] = "l_rlock", !.n = @ + 1,
                            !.call[t] = [NoConcCall EXCEPT !.op = "Data", !.pattern = path]]
    /\ UNCHANGED <<brokerVars, serverVars, san, ctor>>

\* a task calls Handle or HandleFunc
BeginRegister(t, pattern, h) ==
    /\ conc.pc[t] = "idle"
    /\ conc.n < MaxCalls
    /\ conc' = [conc EXCEPT !.pc[t] = "r_lock", !.n = @ + 1,
                            !.call[t] = [NoConcCall EXCEPT !.op = "Register",
                                                           !.pattern = pattern,
                                                           !.class = h.class, !.val = h.val]]
    /\ UNCHANGED <<brokerVars, serverVars, san, ctor>>

\* lookupHandler 103: b.mu.RLock()
LookupRLock(t) ==
    /\ conc.pc[t] = "l_rlock"
    /\ CanRLock(conc.mu)
    /\ conc' = [conc EXCEPT !.mu = RLock(conc.mu, t), !.pc[t] = "l_body"]
    /\ UNCHANGED <<brokerVars, serverVars, san, ctor>>

\* lookupHandler 106-134: the body, up to its return or to the nested call at 127
LookupBody(t) ==
    /\ conc.pc[t] = "l_body"
    /\ LET e == bodyEnd(reg.m, conc.call[t].pattern)
       IN  conc' = [conc EXCEPT !.pc[t] = IF e.nested THEN "l_rlock_nested" ELSE "l_runlock",
                                !.call[t].comp = e.comp]
    /\ UNCHANGED <<brokerVars, serverVars, san, ctor>>

\* lookupHandler 103 in the nested call: b.mu.RLock(), the outer hold still kept
LookupNestedRLock(t) ==
    /\ conc.pc[t] = "l_rlock_nested"
    /\ CanRLock(conc.mu)
    /\ conc' = [conc EXCEPT !.mu = RLock(conc.mu, t), !.pc[t] = "l_runlock_nested"]
    /\ UNCHANGED <<brokerVars, serverVars, san, ctor>>

\* lookupHandler 104 in the nested call: its deferred b.mu.RUnlock()
LookupNestedRUnlock(t) ==
    /\ conc.pc[t] = "l_runlock_nested"
    /\ conc' = [conc EXCEPT !.mu = RUnlock(conc.mu, t), !.pc[t] = "l_runlock"]
    /\ UNCHANGED <<brokerVars, serverVars, san, ctor>>

\* lookupHandler 104: the deferred b.mu.RUnlock(); Data goes on without the lock
LookupRUnlock(t) ==
    /\ conc.pc[t] = "l_runlock"
    /\ conc' = [conc EXCEPT !.mu = RUnlock(conc.mu, t), !.pc[t] = "idle"]
    /\ UNCHANGED <<brokerVars, serverVars, san, ctor>>

\* registerHandler 140: b.mu.Lock() is called; from here new readers wait
RegisterLock(t) ==
    /\ conc.pc[t] = "r_lock"
    /\ conc.mu.pending = NoTask /\ conc.mu.writer = NoTask
    /\ conc' = [conc EXCEPT !.mu.pending = t, !.pc[t] = "r_acquire"]
    /\ UNCHANGED <<brokerVars, serverVars, san, ctor>>

\* registerHandler 140: Lock returns once the readers have left
RegisterAcquire(t) ==
    /\ conc.pc[t] = "r_acquire"
    /\ Readers(conc.mu) = {}
    /\ conc' = [conc EXCEPT !.mu.pending = NoTask, !.mu.writer = t, !.pc[t] = "r_body"]
    /\ UNCHANGED <<brokerVars, serverVars, san, ctor>>

\* Handle / HandleFunc: registerHandler 143-186 under the lock
RegisterBody(t) ==
    /\ conc.pc[t] = "r_body"
    /\ LET c == conc.call[t]
           r == IF c.class = BrokerHandler THEN Handle(B, c.pattern, c.val)
                ELSE HandleFunc(B, c.pattern, c.val)
       IN  /\ reg' = r.reg
           /\ registered' = IF r.panic = NoPanic
                            THEN Put(registered, c.pattern, [class |-> c.class, val |-> c.val])
                            ELSE registered
    /\ conc' = [conc EXCEPT !.pc[t] = "r_unlock"]
    /\ UNCHANGED <<mu, last, serverVars, san, ctor>>

\* registerHandler 141: the deferred b.mu.Unlock()
RegisterUnlock(t) ==
    /\ conc.pc[t] = "r_unlock"
    /\ conc' = [conc EXCEPT !.mu.writer = NoTask, !.pc[t] = "idle"]
    /\ UNCHANGED <<brokerVars, serverVars, san, ctor>>

----------------------------------------------------------------------------
(* Specifications *)

Init ==
    /\ reg = NewBroker.reg
    /\ mu = NewBroker.mu
    /\ registered = EmptyMap
    /\ last = NoCall
    /\ templates = EmptyMap
    /\ mut = [readers |-> [t \in Tasks |-> 0], writer |-> NoTask, pending |-> NoTask]
    /\ files = {Str_index}
    /\ nFs = 0
    /\ pc = [t \in Tasks |-> "idle"]
    /\ req = [t \in Tasks |-> ZeroReq]
    /\ parses = [p \in {CacheKey(u) : u \in RequestPaths} |-> 0]
    /\ nServed = 0
    /\ san = NoSan
    /\ ctor = NoCtor
    /\ conc = NoConc

\* concurrent requests on one TemplateServer
Next ==
    \/ \E t \in Tasks, url \in RequestPaths : Accept(t, url)
    \/ \E t \in Tasks : ServeRLock(t)
    \/ \E t \in Tasks : ServeCheck(t)
    \/ \E t \in Tasks : ServeRUnlock(t)
    \/ \E t \in Tasks : LoadLock(t)
    \/ \E t \in Tasks : LoadAcquire(t)
    \/ \E t \in Tasks : LoadCheck(t)
    \/ \E t \in Tasks : LoadParse(t)
    \/ \E t \in Tasks : LoadDelete(t)
    \/ \E t \in Tasks : LoadUnlock(t)
    \/ \E t \in Tasks : ServeRLockAgain(t)
    \/ \E t \in Tasks : ServeData(t)
    \/ \E t \in Tasks, fails \in BOOLEAN : ServeExecute(t, fails)
    \/ \E t \in Tasks : ServeReturn(t)
    \/ \E t \in Tasks : Finish(t)
    \/ \E path \in ServablePaths : FsChange(path)

Spec == Init /\ [][Next]_vars

\* registrations and lookups on one Broker
NextBroker ==
    \/ \E pattern \in Patterns, broker \in DataBrokers : CallHandle(pattern, broker)
    \/ \E pattern \in Patterns, handler \in BrokerFuncs : CallHandleFunc(pattern, handler)
    \/ \E pattern \in Patterns, handler \in DataMaps : CallHandleData(pattern, handler)
    \/ \E path \in LookupPaths : CallData(path)

SpecBroker == Init /\ [][NextBroker]_vars

\* sanitizePath is called with a path
Sanitize ==
    /\ san.step = 0
    /\ san' = [san EXCEPT !.out = sanitizePath(san.in), !.step = 1]
    /\ UNCHANGED <<brokerVars, serverVars, ctor, conc>>

\* the result is sanitized once more, and joined to the document root as
\* loadTemplate 257 does
SanitizeAgain ==
    /\ san.step = 1
    /\ san' = [san EXCEPT !.again = sanitizePath(san.out),
                          !.file = FilePath(DocumentRoot, san.out),
                          !.step = 2]
    /\ UNCHANGED <<brokerVars, serverVars, ctor, conc>>

InitSanitize ==
    /\ reg = NewBroker.reg
    /\ mu = NewBroker.mu
    /\ registered = EmptyMap
    /\ last = NoCall
    /\ templates = EmptyMap
    /\ mut = [readers |-> [t \in Tasks |-> 0], writer |-> NoTask, pending |-> NoTask]
    /\ files = {Str_index}
    /\ nFs = 0
    /\ pc = [t \in Tasks |-> "idle"]
    /\ req = [t \in Tasks |-> ZeroReq]
    /\ parses = [p \in {CacheKey(u) : u \in RequestPaths} |-> 0]
    /\ nServed = 0
    /\ san \in {[NoSan EXCEPT !.in = p] : p \in InputPaths}
    /\ ctor = NoCtor
    /\ conc = NoConc

NextSanitize ==
    \/ Sanitize
    \/ SanitizeAgain

\* sanitizePath on every path of InputPaths
SpecSanitize == InitSanitize /\ [][NextSanitize]_vars

\* the file systems and arguments the constructors are called with
InitConstruct ==
    /\ reg = NewBroker.reg
    /\ mu = NewBroker.mu
    /\ registered = EmptyMap
    /\ last = NoCall
    /\ templates = EmptyMap
    /\ mut = [readers |-> [t \in Tasks |-> 0], writer |-> NoTask, pending |-> NoTask]
    /\ files = {Str_index}
    /\ nFs = 0
    /\ pc = [t \in Tasks |-> "idle"]
    /\ req = [t \in Tasks |-> ZeroReq]
    /\ parses = [p \in {CacheKey(u) : u \in RequestPaths} |-> 0]
    /\ nServed = 0
    /\ san = NoSan
    /\ \E rootNode \in {Missing, File, Dir(<<>>)},
          includeNode \in Nodes(MaxIncludeDepth) \cup {Missing},
          data \in DataBrokers,
          notDirErr \in {ENOTDIR, ENOENT} :
            ctor = [NoCtor EXCEPT !.rootNode = rootNode, !.includeNode = includeNode,
                                  !.data = data, !.notDirErr = notDirErr]
    /\ conc = NoConc

NextConstruct ==
    \/ CallNewServer
    \/ CallNewIncludesServer

\* one constructor call on every file system of InitConstruct
SpecConstruct == InitConstruct /\ [][NextConstruct]_vars

NextBrokerConc ==
    \/ \E t \in Tasks, path \in ConcPaths : BeginData(t, path)
    \/ \E t \in Tasks, pattern \in ConcPatterns, h \in ConcHandlers :
           BeginRegister(t, pattern, h)
    \/ \E t \in Tasks : LookupRLock(t)
    \/ \E t \in Tasks : LookupBody(t)
    \/ \E t \in Tasks : LookupNestedRLock(t)
    \/ \E t \in Tasks : LookupNestedRUnlock(t)
    \/ \E t \in Tasks : LookupRUnlock(t)
    \/ \E t \in Tasks : RegisterLock(t)
    \/ \E t \in Tasks : RegisterAcquire(t)
    \/ \E t \in Tasks : RegisterBody(t)
    \/ \E t \in Tasks : RegisterUnlock(t)

\* Data and registration calls in parallel on one Broker
SpecBrokerConc == Init /\ [][NextBrokerConc]_vars

----------------------------------------------------------------------------
(* Properties of the template cache *)

\* C1: no request for a path whose file compiles is answered 404 purely because
\* another request compiled the path first: a 404 is never the answer to the
\* "already parsed" result of loadTemplate.
C1_NoSpuriousNotFound ==
    \A t \in Tasks :
        req[t].status = StatusNotFound => req[t].err # ErrAlreadyParsed

\* C2: under any interleaving a path is successfully compiled at most once, and no
\* parse is started for a path that already has a cached entry.
C2_CompiledAtMostOnce ==
    /\ \A p \in DOMAIN parses : parses[p] <= 1
    /\ \A t \in Tasks : pc[t] = "lt_parse" => ~HasKey(templates, req[t].p)

\* two requests raced to compile one path: one compiled it, the other was refused
C2_Witness ==
    \E t \in Tasks, u \in Tasks :
        /\ t # u
        /\ req[t].p = req[u].p
        /\ req[t].loaded
        /\ req[u].err = ErrAlreadyParsed
        /\ parses[req[t].p] = 1

\* the request of task t has been answered
Answered(t) == pc[t] \in {"ret", "done"}

\* path p has a compiled template in the cache
Cached(p) == HasKey(templates, p) /\ templates[p] # NilTemplate

\* C12: a request whose template fails to compile is answered 404 and leaves no
\* entry for its path; a request for a path without an entry always attempts the
\* compilation, and an attempt made when the file compiles caches the template.
C12_CompileFailureNotCached ==
    /\ \A p \in DOMAIN templates :
           ~Cached(p) => \E u \in Tasks :
                             pc[u] = "lt_delete" /\ mut.writer = u /\ req[u].p = p
    /\ \A t \in Tasks :
        /\ (Answered(t) /\ req[t].err = ErrParse) =>
               (req[t].status = StatusNotFound /\ ~req[t].loaded)
        /\ (pc[t] = "lt_unlock" /\ req[t].err = ErrParse) => ~HasKey(templates, req[t].p)
        /\ (Answered(t) /\ ~HasKey(templates, req[t].p)) =>
               (req[t].attempts = 1 /\ req[t].err = ErrParse)
        /\ (req[t].attempts = 1 /\ req[t].err = ErrNone) =>
               (req[t].loaded /\ (pc[t] # "lt_parse" => Cached(req[t].p)))

\* a request was answered 404 after a failed compile, and a request for the same
\* path compiled it afterwards and was answered 200
C12_Witness ==
    \E t \in Tasks, u \in Tasks :
        /\ t # u
        /\ pc[t] = "done"
        /\ req[t].err = ErrParse
        /\ req[t].status = StatusNotFound
        /\ req[u].p = req[t].p
        /\ req[u].loaded
        /\ req[u].status = StatusOK

\* C13: the 500 outcome is produced by a failed execution and by nothing else,
\* and the 404 outcome by a failed compilation and by nothing else.
C13_FailureOutcomesDistinct ==
    \A t \in Tasks :
        Answered(t) =>
            /\ (req[t].status = StatusInternalServerError) <=> (req[t].exec = "failed")
            /\ (req[t].status = StatusNotFound) <=> (req[t].err = ErrParse)

\* no task changes or removes a compiled template
KeepsCompiled ==
    \A p \in DOMAIN templates :
        Cached(p) => (HasKey(templates', p) /\ templates'[p] = templates[p])

\* C14: once a path has a compiled template in the cache, every later step of
\* the server leaves that same template cached for that path.
C14_CachedForever == [][KeepsCompiled]_vars

\* one path's template is cached and has been kept through a failed render of
\* it, while another request for the same path lost the compile race
C14_Witness ==
    \E t \in Tasks, u \in Tasks :
        /\ t # u
        /\ Answered(t)
        /\ req[t].exec = "failed"
        /\ req[u].p = req[t].p
        /\ req[u].err = ErrAlreadyParsed
        /\ Cached(req[t].p)
        /\ templates[req[t].p] = req[t].tmpl

\* C15: while one task is compiling the template of a path, a request for a
\* different, already cached path is not made to wait: it can take its shared
\* hold of the cache lock and go on to its data and its render.
C15_CachedRequestsNotBlocked ==
    \A t \in Tasks, u \in Tasks :
        (/\ pc[t] = "lt_parse"
         /\ pc[u] = "rlock"
         /\ Cached(req[u].p)
         /\ req[u].p # req[t].p) => ENABLED ServeRLock(u)

\* C16: no task fetches data or executes a template while it holds the cache
\* lock exclusively, and a task asks for the exclusive hold only after it has
\* given up its shared hold.
C16_NoWorkUnderExclusiveLock ==
    \A t \in Tasks :
        /\ pc[t] \in {"data", "exec"} => (mut.writer # t /\ mut.pending # t)
        /\ pc[t] \in {"lt_lock", "lt_acquire"} => mut.readers[t] = 0
        /\ (mut.writer = t \/ mut.pending = t) => mut.readers[t] = 0

\* a task that missed has released its shared hold and waits for the exclusive
\* hold while another task renders under its shared hold
C16_Witness ==
    \E t \in Tasks, u \in Tasks :
        /\ pc[t] = "lt_acquire"
        /\ mut.pending = t
        /\ pc[u] = "exec"
        /\ mut.readers[u] = 1

\* C18: a request that reaches rendering has called the data source exactly
\* once, with its normalized path, and only with a compiled template for that
\* path in the cache; a request answered 404 has not called the data source.
C18_DataOncePerRender ==
    \A t \in Tasks :
        /\ req[t].dataCalls <= 1
        /\ (pc[t] = "exec" \/ req[t].exec # "none") => req[t].dataCalls = 1
        /\ pc[t] = "data" => (req[t].dataCalls = 0 /\ Cached(req[t].p))
        /\ req[t].dataCalls = 1 =>
               /\ req[t].dataPath = sanitizePath(req[t].dataPath)
               /\ req[t].dataPath = req[t].p
               /\ Cached(req[t].dataPath)
        /\ req[t].status = StatusNotFound => req[t].dataCalls = 0

\* one request compiled its template, then called the data source and is at the
\* render, while another was answered 404 without a data call
C18_Witness ==
    \E t \in Tasks, u \in Tasks :
        /\ pc[t] = "exec"
        /\ req[t].loaded
        /\ req[t].dataCalls = 1
        /\ req[t].dataPath = Str_a
        /\ Answered(u)
        /\ req[u].status = StatusNotFound
        /\ req[u].dataCalls = 0

\* C19: every request whose path normalizes to the root is served as the index
\* file: its cache key, which is also the file compiled and the path given to
\* the data source, is the index path.
C19_RootIsIndex ==
    \A t \in Tasks :
        (pc[t] # "idle" /\ sanitizePath(req[t].url) = Str_root) =>
            /\ req[t].p = Str_index
            /\ req[t].dataCalls = 1 => req[t].dataPath = Str_index

\* the positions of ServeHTTP at which the task has its shared hold
HoldsShared == {"check", "runlock", "data", "exec", "ret"}

\* C27: every task has exactly one shared hold of the cache lock between an
\* RLock and the matching RUnlock and none elsewhere, so it never releases a hold
\* it does not have; a task whose request has ended holds the lock in no mode,
\* and with no request in flight the lock has no holder.
C27_LockBalanced ==
    /\ \A t \in Tasks :
           /\ mut.readers[t] = IF pc[t] \in HoldsShared THEN 1 ELSE 0
           /\ pc[t] \in {"idle", "done"} => (mut.writer # t /\ mut.pending # t)
    /\ (\A t \in Tasks : pc[t] \in {"idle", "done"}) =>
           (Readers(mut) = {} /\ mut.writer = NoTask /\ mut.pending = NoTask)

\* requests have ended with a 404 after a lost race and with a 500, and the
\* lock has no holder
C27_Witness ==
    \E t \in Tasks, u \in Tasks :
        /\ pc[t] = "done"
        /\ req[t].status = StatusNotFound
        /\ req[t].err = ErrAlreadyParsed
        /\ pc[u] = "done"
        /\ req[u].status = StatusInternalServerError
        /\ Readers(mut) = {}
        /\ mut.writer = NoTask

\* C28: whenever no task holds the cache lock exclusively, every entry of the
\* cache is a compiled template, and a task that executes its template, also one
\* that took the shared lock again after compiling, finds the entry of its path.
C28_EntriesCompiled ==
    /\ mut.writer = NoTask => \A p \in DOMAIN templates : templates[p] # NilTemplate
    /\ \A t \in Tasks :
           pc[t] = "exec" => (HasKey(templates, req[t].p) /\ Cached(req[t].p))

\* a task compiled its template, took the shared lock again and is at the
\* execution, after a failed parse of another path had written its placeholder
C28_Witness ==
    \E t \in Tasks, u \in Tasks :
        /\ pc[t] = "exec"
        /\ req[t].loaded
        /\ mut.readers[t] = 1
        /\ req[u].err = ErrParse
        /\ pc[u] \in {"rlock2", "ret", "done"}
        /\ req[u].p # req[t].p
        /\ mut.writer = NoTask

----------------------------------------------------------------------------
(* Properties of the route registry *)

RegisterOps == {"Handle", "HandleFunc", "HandleData"}

IsDirForm(p) == Len(p) > 0 /\ p[Len(p)] = Slash

IsFileForm(p) == Len(p) > 0 /\ p[Len(p)] # Slash

IsRooted(p) == Len(p) > 0 /\ p[1] = Slash

\* the entry a registration of handler h = [class, val] stands for
EntryFor(h) ==
    [class |-> h.class,
     mapHandler |-> IF h.class = ConstHandler THEN h.val ELSE Nil,
     funcHandler |-> IF h.class = FuncHandler THEN h.val ELSE Nil,
     brokerHandler |-> IF h.class = BrokerHandler THEN h.val ELSE Nil]

\* the directories above path p: its proper prefixes that end in the separator
AncestorDirs(p) == {Prefix(p, n) : n \in {k \in 1..(Len(p) - 1) : p[k] = Slash}}

\* the ancestors of p that have a bucket in the registry
AncestorBuckets(p) == {d \in AncestorDirs(p) : HasKey(reg.m, d)}

\* the nearest of them: the longest
NearestBucket(p) ==
    CHOOSE d \in AncestorBuckets(p) : \A e \in AncestorBuckets(p) : Len(e) <= Len(d)

\* C3: in every registry state, the fresh registry included, resolving a request
\* path returns normally, and a miss makes Data return nothing.
C3_ResolveReturnsNormally ==
    (last.op = "Data" /\ IsRooted(last.pattern)) =>
        /\ last.lookupPanic = NoPanic
        /\ (~last.ok => (last.panic = NoPanic /\ last.ret = NilData))

\* C4: when a file pattern F and a directory pattern above F are both registered,
\* resolving exactly F returns the handler registered for F.
C4_FileBeatsDirectory ==
    (/\ last.op = "Data"
     /\ IsFileForm(last.pattern)
     /\ HasKey(registered, last.pattern)
     /\ \E D \in DOMAIN registered : IsDirForm(D) /\ D \in AncestorDirs(last.pattern)) =>
        /\ last.lookupPanic = NoPanic
        /\ last.ok
        /\ last.entry = EntryFor(registered[last.pattern])

C4_Witness ==
    /\ last.op = "Data"
    /\ IsFileForm(last.pattern)
    /\ HasKey(registered, last.pattern)
    /\ \E D \in DOMAIN registered :
          /\ IsDirForm(D)
          /\ D \in AncestorDirs(last.pattern)
          /\ registered[D] # registered[last.pattern]
    /\ last.ok
    /\ last.entry = EntryFor(registered[last.pattern])

\* C5: resolving an unregistered file path returns the handler of directory D when
\* D is registered and is the nearest ancestor of the path that has a bucket.
C5_DirectoryCatchAll ==
    (/\ last.op = "Data"
     /\ IsFileForm(last.pattern)
     /\ ~HasKey(registered, last.pattern)
     /\ AncestorBuckets(last.pattern) # {}
     /\ HasKey(registered, NearestBucket(last.pattern))) =>
        /\ last.lookupPanic = NoPanic
        /\ last.ok
        /\ last.entry = EntryFor(registered[NearestBucket(last.pattern)])

\* the catch-all answers for a file two levels below the registered directory
C5_Witness ==
    /\ last.op = "Data"
    /\ IsFileForm(last.pattern)
    /\ ~HasKey(registered, last.pattern)
    /\ AncestorBuckets(last.pattern) # {}
    /\ HasKey(registered, NearestBucket(last.pattern))
    /\ NearestBucket(last.pattern) # PathSplit(last.pattern).dir
    /\ NearestBucket(last.pattern) # Str_root
    /\ last.ok
    /\ last.entry = EntryFor(registered[NearestBucket(last.pattern)])

\* the nearest bucket of p exists only because other files were registered in it
BareBucket(p) ==
    /\ AncestorBuckets(p) # {}
    /\ LET n == NearestBucket(p)
       IN  /\ ~HasKey(reg.m[n], p)
           /\ ~HasKey(reg.m[n], n)
           /\ ~HasKey(reg.m[n], n \o DirectoryIndex)

\* C6: file-form resolution stops at the nearest ancestor that has a bucket: when
\* that bucket holds neither the file nor a directory or index entry, there is no
\* match, whatever is registered further up.
C6_StopsAtNearestBucket ==
    (last.op = "Data" /\ IsFileForm(last.pattern) /\ BareBucket(last.pattern)) =>
        /\ last.lookupPanic = NoPanic
        /\ ~last.ok

C6_Witness ==
    /\ last.op = "Data"
    /\ IsFileForm(last.pattern)
    /\ BareBucket(last.pattern)
    /\ NearestBucket(last.pattern) # Str_root
    /\ HasKey(registered, Str_root)
    /\ ~last.ok

\* C7: a directory-form path is resolved in its own bucket only: the entry of the
\* directory pattern if present, else its index entry, else no match; an
\* unregistered directory has no match, and a registered one its own handler.
C7_DirectoryOwnBucketOnly ==
    (last.op = "Data" /\ IsDirForm(last.pattern)) =>
        LET p == last.pattern
            idx == p \o DirectoryIndex
            own == IF HasKey(reg.m, p) THEN reg.m[p] ELSE EmptyMap
        IN  /\ last.lookupPanic = NoPanic
            /\ IF HasKey(own, p) THEN last.ok /\ last.entry = own[p]
               ELSE IF HasKey(own, idx) THEN last.ok /\ last.entry = own[idx]
                    ELSE ~last.ok
            /\ IF HasKey(registered, p)
               THEN last.ok /\ last.entry = EntryFor(registered[p])
               ELSE ~last.ok

\* an unregistered directory under the registered root resolves to no match
C7_Witness ==
    /\ last.op = "Data"
    /\ IsDirForm(last.pattern)
    /\ ~HasKey(registered, last.pattern)
    /\ last.pattern # Str_root
    /\ HasKey(registered, Str_root)
    /\ ~last.ok

\* C8: registering a directory or file pattern that was already registered fails
\* fatally, whatever the handler class and whatever was registered in between.
C8_DuplicateRegistrationPanics ==
    (last.op \in RegisterOps /\ last.wasRegistered) =>
        last.panic # NoPanic

\* a file pattern is registered a second time, with a handler of another class,
\* after another pattern was registered
C8_Witness ==
    /\ last.op \in RegisterOps
    /\ last.wasRegistered
    /\ IsFileForm(last.pattern)
    /\ registered[last.pattern].class # last.class
    /\ Cardinality(DOMAIN registered) = MaxRegistered
    /\ last.panic # NoPanic

\* C9: a registration that fails fatally leaves the lock released and every later
\* resolve of every path with the result it had before.
C9_FailedRegistrationChangesNothing ==
    [][(last'.op \in RegisterOps /\ last'.panic # NoPanic) =>
           /\ mu'.writer = FALSE
           /\ \A p \in LookupPaths : lookupHandler(B', p) = lookupHandler(B, p)]_vars

\* C10: registering with an empty pattern or a nil handler fails fatally at
\* registration time, so no nil handler is stored and none is reached by Data.
C10_NilHandlerPanicsAtRegistration ==
    /\ (last.op \in RegisterOps /\ (last.pattern = <<>> \/ last.val = Nil)) =>
           last.panic # NoPanic
    /\ \A d \in DOMAIN reg.m : \A k \in DOMAIN reg.m[d] :
           LET e == reg.m[d][k]
           IN  /\ e.class = FuncHandler => e.funcHandler # Nil
               /\ e.class = ConstHandler => e.mapHandler # Nil
               /\ e.class = BrokerHandler => e.brokerHandler # Nil

\* the last component of p is the reserved index filename
IsIndexFile(p) ==
    \E d \in {<<>>} \cup AncestorDirs(p) : p = d \o DirectoryIndex

\* C11: registering a file pattern whose last component is the index filename
\* fails fatally in every registry state, so the index entry of a directory exists
\* only when that directory was registered, and holds its handler.
C11_IndexAsFilePanics ==
    /\ (last.op \in RegisterOps /\ IsIndexFile(last.pattern)) => last.panic # NoPanic
    /\ \A p \in DOMAIN registered : ~IsIndexFile(p)
    /\ \A d \in DOMAIN reg.m :
           HasKey(reg.m[d], d \o DirectoryIndex) =>
               /\ IsDirForm(d)
               /\ HasKey(registered, d)
               /\ reg.m[d][d \o DirectoryIndex] = EntryFor(registered[d])

\* the index of a directory is refused as a file pattern, with a non-nil handler,
\* on a registry that already holds that directory and a file in it
C11_Witness ==
    /\ last.op \in RegisterOps
    /\ IsIndexFile(last.pattern)
    /\ last.pattern # Str_index
    /\ last.val # Nil
    /\ HasKey(registered, PathSplit(last.pattern).dir)
    /\ Cardinality(DOMAIN registered) = MaxRegistered
    /\ last.panic # NoPanic

\* C17: whenever Data invokes a registered function or delegate data source, the
\* registry lock is held in no mode: the read lock of the resolution, and of
\* every nested resolution, has been released.
C17_HandlerInvokedUnlocked ==
    (last.op = "Data" /\ last.invoked) =>
        (last.held.readers = 0 /\ ~last.held.writer)

\* Data invoked a function registered for a directory, found for a file path
\* through the nested resolution of the directory
C17_Witness ==
    /\ last.op = "Data"
    /\ last.invoked
    /\ last.entry.class = FuncHandler
    /\ IsFileForm(last.pattern)
    /\ ~HasKey(registered, last.pattern)
    /\ last.ret.kind \in {"func", "error"}
    /\ mu.readers = 0

----------------------------------------------------------------------------
(* Properties of path normalization *)

\* the segments of a rooted path: what stands between its separators
Segments(p) == IF p = <<Slash>> THEN <<>> ELSE Elements(Tail(p))

\* C20: the normalized path starts with the separator and has no empty, "." or
\* ".." segment, hence no trailing separator unless it is the root, and the file
\* compiled for it lies under the document root; the empty path normalizes to
\* the root, the test cases give their expected results, and normalizing the
\* result again changes nothing.
C20_SanitizedPathIsClean ==
    /\ san.step >= 1 =>
           /\ Len(san.out) >= 1
           /\ san.out[1] = Slash
           /\ \A i \in 1..Len(Segments(san.out)) :
                  Segments(san.out)[i] \notin {<<>>, <<".">>, DotDot}
           /\ san.out[Len(san.out)] = Slash => san.out = <<Slash>>
           /\ san.in = <<>> => san.out = <<Slash>>
           /\ \A c \in TestSanitizePath : san.in = c.Path => san.out = c.Expected
    /\ san.step = 2 =>
           /\ san.again = san.out
           /\ \/ san.file = DocumentRoot
              \/ /\ Len(san.file) > Len(DocumentRoot) + 1
                 /\ Prefix(san.file, Len(DocumentRoot) + 1) = DocumentRoot \o <<Slash>>
                 /\ san.file = DocumentRoot \o san.out

\* a path that climbs above the root was normalized to a path under it
C20_Witness ==
    /\ san.step = 2
    /\ san.in = <<"/", ".", ".", "/", "a">>
    /\ san.out = <<"/", "a">>
    /\ san.file = <<"/", "r", "/", "a">>

----------------------------------------------------------------------------
(* Properties of Data *)

\* C21: when the function handler found for a path returns an error, Data
\* returns normally with the one-key "error" map made for that error, not with
\* whatever map the function returned; when it returns no error, Data returns
\* the function's map.
C21_FuncErrorBecomesData ==
    (last.op = "Data" /\ last.ok /\ last.entry.class = FuncHandler
        /\ last.entry.funcHandler # Nil) =>
        /\ last.panic = NoPanic
        /\ last.invoked
        /\ last.ret = IF last.fnErr
                      THEN ErrorData(last.entry.funcHandler, last.pattern)
                      ELSE FuncData(last.entry.funcHandler, last.pattern)

\* a registered function was called for a path and returned an error
C21_Witness ==
    /\ last.op = "Data"
    /\ last.ok
    /\ last.entry.class = FuncHandler
    /\ last.fnErr
    /\ last.ret.kind = "error"
    /\ last.panic = NoPanic

\* C25: for a rooted request path, Data yields nothing when no entry is found
\* for the path or the entry is empty, the registered map when the entry is a
\* constant, and the delegate's result for the request path itself when the
\* entry is a delegate.
C25_DataDispatch ==
    (last.op = "Data" /\ IsRooted(last.pattern)) =>
        /\ ~last.ok => (last.panic = NoPanic /\ last.ret = NilData)
        /\ (last.ok /\ last.entry.class = NilHandler) =>
               (last.panic = NoPanic /\ last.ret = NilData)
        /\ (last.ok /\ last.entry.class = ConstHandler) =>
               (last.panic = NoPanic /\ last.ret = ConstData(last.entry.mapHandler))
        /\ (last.ok /\ last.entry.class = BrokerHandler) =>
               /\ last.panic = NoPanic
               /\ last.ret = DelegateData(last.entry.brokerHandler, last.pattern)

----------------------------------------------------------------------------
(* Properties of the registry contents *)

\* C22: every registered directory pattern D has a bucket D that holds an entry
\* for D and an entry for the index file of D, and both are the entry of the
\* handler registered for D.
C22_DirectorySeedsBothEntries ==
    \A D \in DOMAIN registered :
        IsDirForm(D) =>
            /\ HasKey(reg.m, D)
            /\ HasKey(reg.m[D], D)
            /\ reg.m[D][D] = EntryFor(registered[D])
            /\ HasKey(reg.m[D], PathJoin(D, DirectoryIndex))
            /\ reg.m[D][PathJoin(D, DirectoryIndex)] = EntryFor(registered[D])

\* a directory was registered after a file of it had made its bucket
C22_Witness ==
    /\ last.op \in RegisterOps
    /\ last.panic = NoPanic
    /\ last.pattern = Str_d
    /\ HasKey(registered, Str_d_s)
    /\ HasKey(registered, Str_d)
    /\ registered[Str_d] # registered[Str_d_s]
    /\ DOMAIN reg.m[Str_d] = {Str_d, Str_d_s, Str_d_index}

\* the registry contents that a set of registrations determines, whatever their
\* order: the root bucket, a bucket for every registered directory and for the
\* directory of every registered file, each with the entries that belong to it
BucketsOf(r) ==
    {<<Slash>>} \cup {p \in DOMAIN r : IsDirForm(p)}
                \cup {PathSplit(p).dir : p \in {q \in DOMAIN r : ~IsDirForm(q)}}

KeysOf(r, b) ==
    (IF HasKey(r, b) /\ IsDirForm(b) THEN {b, PathJoin(b, DirectoryIndex)} ELSE {})
        \cup {p \in DOMAIN r : ~IsDirForm(p) /\ PathSplit(p).dir = b}

ContentsOf(r) ==
    [b \in BucketsOf(r) |->
        [k \in KeysOf(r, b) |-> IF HasKey(r, k) THEN EntryFor(r[k]) ELSE EntryFor(r[b])]]

\* C23: the registry contents are determined by the set of registered patterns
\* and their handlers alone, so every order of the same registrations gives the
\* same contents and the same resolve results.
C23_OrderIrrelevant ==
    IF reg.nil THEN registered = EmptyMap /\ reg.m = EmptyMap
    ELSE reg.m = ContentsOf(registered)

\* a file and its directory are both registered, the directory first
C23_Witness ==
    /\ last.op \in RegisterOps
    /\ last.panic = NoPanic
    /\ last.pattern = Str_d_s
    /\ HasKey(registered, Str_d)
    /\ HasKey(registered, Str_d_s)
    /\ registered[Str_d] # registered[Str_d_s]
    /\ reg.m = ContentsOf(registered)

----------------------------------------------------------------------------
(* Properties of the constructors *)

\* C24: a constructor called with a document root that is not an existing
\* directory, or the includes constructor called with an include root that is
\* not an existing directory, returns an error and no server.
C24_InvalidConfigurationFails ==
    (/\ ctor.fn # "none"
     /\ \/ ctor.rootNode.kind # "dir"
        \/ ctor.fn = "NewIncludesServer" /\ ctor.includeNode.kind # "dir") =>
        (ctor.srv.nil /\ ctor.err # ErrNone)

----------------------------------------------------------------------------
(* Properties of the registry lock *)

\* C26: with Data and registration calls running in parallel, no state is
\* reached in which calls are in progress and none of them can take a step: a
\* resolver and a registrant never wait for each other.
C26_NoCallBlockedForever ==
    (\E t \in Tasks : conc.pc[t] # "idle") =>
        \E t \in Tasks :
            \/ conc.pc[t] \in {"l_body", "r_body"}
            \/ ENABLED LookupRLock(t)
            \/ ENABLED LookupNestedRLock(t)
            \/ ENABLED LookupNestedRUnlock(t)
            \/ ENABLED LookupRUnlock(t)
            \/ ENABLED RegisterLock(t)
            \/ ENABLED RegisterAcquire(t)
            \/ ENABLED RegisterUnlock(t)

====
